---- MODULE Spec2Model ----
(***************************************************************************)
(* Model of the Study Helper Bot (src/main.py): the in-memory task store   *)
(* user_tasks, the one-shot pomodoro jobs registered with the job queue,   *)
(* the command handlers and the error handler.                             *)
(*                                                                         *)
(* Strings the code inspects character by character (command arguments,    *)
(* task texts) are sequences of one-character strings.  A handler is a     *)
(* coroutine: its synchronous prefix up to the await of a reply is one     *)
(* step, the completion of the awaited call (normally or by raising) is    *)
(* the next.  The application is built with the default sequential update  *)
(* processing, so at most one update handler is in flight; job callbacks   *)
(* run as their own tasks and interleave with it.  Time is abstracted: a   *)
(* pending job may fire at any moment.                                     *)
(***************************************************************************)
EXTENDS Integers, Sequences, FiniteSets, Bags, TLC

(***************************************************************************)
(* Bounds of the model.                                                    *)
(***************************************************************************)
MaxTasks == 2      \* longest task list explored per user
MaxJobs == 2       \* number of pomodoro requests that reach run_once
MaxSuspended == 1  \* handler coroutines set aside while another update is handled

(***************************************************************************)
(* Program constants.                                                      *)
(***************************************************************************)
DefaultMinutes == 25
TestSeconds == 10
SecondsPerMinute == 60
MinSeconds == 5

\* Who sends an update: a user in the private chat with the bot (the chat id
\* is the user id) and a user in a group chat (group chat ids are negative).
Senders == {[user |-> 101, chat |-> 101], [user |-> 102, chat |-> -1001]}

Users == {s.user : s \in Senders}

(***************************************************************************)
(* Characters and Python's str predicates and conversions.                 *)
(***************************************************************************)
Decimals == <<"0", "1", "2", "3", "4", "5", "6", "7", "8", "9">>

DecimalChars == {Decimals[i] : i \in 1..Len(Decimals)}

\* str.isdigit() also accepts digits that are not decimal, such as the
\* superscript two (U+00B2, written "^2" here), which int() rejects.
DigitChars == DecimalChars \cup {"^2"}

Whitespace == {" "}

\* mutant: any non-empty argument passes the check
isdigit_any(s) == Len(s) > 0

isdigit(s) == Len(s) > 0 /\ \A i \in 1..Len(s) : s[i] \in DigitChars

\* int(s) raises ValueError
int_raises(s) == Len(s) = 0 \/ \E i \in 1..Len(s) : s[i] \notin DecimalChars

DigitValue(c) == (CHOOSE i \in 1..Len(Decimals) : Decimals[i] = c) - 1

RECURSIVE int(_)
int(s) == IF Len(s) = 0 THEN 0
          ELSE 10 * int(SubSeq(s, 1, Len(s) - 1)) + DigitValue(s[Len(s)])

RECURSIVE str(_)
str(n) == IF n < 0 THEN <<"-">> \o str(0 - n)
          ELSE IF n < 10 THEN <<Decimals[n + 1]>>
          ELSE str(n \div 10) \o <<Decimals[(n % 10) + 1]>>

RECURSIVE join(_)
join(args) == IF Len(args) = 0 THEN <<>>
              ELSE IF Len(args) = 1 THEN args[1]
              ELSE args[1] \o <<" ">> \o join(Tail(args))

RECURSIVE lstrip(_)
lstrip(s) == IF Len(s) > 0 /\ Head(s) \in Whitespace THEN lstrip(Tail(s)) ELSE s

RECURSIVE rstrip(_)
rstrip(s) == IF Len(s) > 0 /\ s[Len(s)] \in Whitespace
             THEN rstrip(SubSeq(s, 1, Len(s) - 1)) ELSE s

\* mutant: the text is not trimmed
strip_nothing(s) == s

strip(s) == rstrip(lstrip(s))

\* list.pop(i) for -len <= i < len: a negative index counts from the end.
\* The 1-based position removed, the removed element and the remaining list.
pop_position(list, i) == IF i < 0 THEN Len(list) + i + 1 ELSE i + 1

pop_item(list, i) == list[pop_position(list, i)]

\* mutant: pop() without its index removes the last element
pop_rest_last(list, i) == SubSeq(list, 1, Len(list) - 1)

pop_rest(list, i) ==
    SubSeq(list, 1, pop_position(list, i) - 1)
        \o SubSeq(list, pop_position(list, i) + 1, Len(list))

\* enumerate(list, 1) as rendered by tasks_list_command: "{i}. {task}\n"
enumerate(list) == [i \in 1..Len(list) |-> [number |-> str(i), task |-> list[i]]]

(***************************************************************************)
(* Inputs: the argument lists (context.args) the commands are tried with.  *)
(* The transport splits the message on whitespace; the handlers are also   *)
(* tried with a blank argument so that strip() has something to remove.    *)
(***************************************************************************)
AddArgs == {<<>>, <<<<" ">>>>, <<<<"a">>>>, <<<<"b">>>>, <<<<"a">>, <<"b">>>>,
            <<<<" ">>, <<"a">>, <<" ">>>>}

DoneArgs == {<<>>, <<<<"a">>>>, <<<<"-", "1">>>>, <<<<"^2">>>>, <<<<"0", "2">>>>}
            \cup {<<str(k)>> : k \in 0..(MaxTasks + 1)}

PomodoroArgs == {<<>>, <<<<"0">>>>, <<<<"5">>>>, <<<<"2", "5">>>>, <<<<"0", "5">>>>,
                 <<<<"a">>>>, <<<<"-", "5">>>>, <<<<"2", ".", "5">>>>, <<<<"^2">>>>,
                 <<<<"5">>, <<"a">>>>}

NoArgs == {<<>>}

VARIABLES
    user_tasks,   \* the dict user_tasks: a function on the user ids that have an entry
    jobs,         \* the job queue: pending one-shot jobs
    job_count,    \* number of Job objects created so far (object identity)
    task,         \* the update handler coroutine in flight, or Idle
    alarms,       \* alarm_callback coroutines awaiting send_message
    notified,     \* bag of send_message calls made by alarm_callback
    errors,       \* outcome of the latest error_handler invocation
    suspended,    \* handler coroutines awaiting a reply while another update is handled
    before        \* history: user_tasks and job_count when the latest handler started

vars == <<user_tasks, jobs, job_count, task, alarms, notified, errors, suspended,
          before>>

Idle == [pc |-> "idle"]

\* error_handler has not run yet, for an update and for a job
NoError == [update |-> "none", job |-> "none"]

\* the update argument of error_handler when a job callback failed
None == [none |-> TRUE]

Init ==
    /\ user_tasks = <<>>
    /\ jobs = {}
    /\ job_count = 0
    /\ task = Idle
    /\ alarms = {}
    /\ notified = EmptyBag
    /\ errors = NoError
    /\ suspended = {}
    /\ before = [user_tasks |-> user_tasks, job_count |-> job_count]

(***************************************************************************)
(* Updates and messages.                                                   *)
(***************************************************************************)
Update(sender, args) ==
    [effective_user |-> sender.user, effective_chat |-> sender.chat, args |-> args,
     effective_message |-> TRUE]

Updates(arglists) == {Update(s, a) : s \in Senders, a \in arglists}

\* the coroutine of `handler`, suspended in the await at source line `at`
Await(handler, update, at, reply) ==
    [pc |-> "await", handler |-> handler, update |-> update, at |-> at,
     reply |-> reply]

Text(t) == [text |-> t]

HelpText == Text("Welcome back")

MinDurationText == Text("The minimum timer duration is 5 seconds.")

TimerSetText(minutes) == [text |-> "Timer set!", minutes |-> str(minutes)]

PomodoroUsageText == Text("Usage: /pomodoro [minutes]")

DingText(type) == [text |-> "DING DING!", type |-> type]

AddUsageText == Text("Please provide the task description")

TaskAddedText(task_text, count) ==
    [text |-> "Task added", task |-> task_text, number |-> str(count)]

EmptyListText == Text("Your to-do list is empty!")

TaskListText(list) == [text |-> "Your Current Study Tasks", lines |-> enumerate(list)]

DoneUsageText == Text("Usage: /tasks_done [number]")

NothingDoneText == Text("Your list is empty, nothing to mark as done!")

CompletedText(completed_task) == [text |-> "You completed", task |-> completed_task]

NoSuchTaskText == Text("That task number doesn't exist.")

DoneErrorText == Text("An error occurred.")

QuoteText(q) == [text |-> "Motivation Boost", quote |-> q]

PhraseText(p) == [text |-> "phrase", phrase |-> p]

ApologyText == Text("Oops! Something went wrong.")

NumQuotes == 5

NumPhrases == 4

(***************************************************************************)
(* The task store.                                                         *)
(***************************************************************************)
\* mutant: only a missing entry counts as "no tasks"
no_tasks_absent(store, user_id) == user_id \notin DOMAIN store

\* `user_id not in user_tasks or not user_tasks[user_id]`
no_tasks(store, user_id) ==
    user_id \notin DOMAIN store \/ Len(store[user_id]) = 0

\* mutant: every user's entry refers to the one list that is written
setitem_shared(store, user_id, value) == [u \in DOMAIN store \cup {user_id} |-> value]

\* user_tasks[user_id] = value
setitem(store, user_id, value) ==
    [u \in DOMAIN store \cup {user_id} |-> IF u = user_id THEN value ELSE store[u]]

\* mutant: the task is inserted at the head of the list
add_task_first(store, user_id, task_text) ==
    [u \in DOMAIN store \cup {user_id} |->
        IF u # user_id THEN store[u]
        ELSE IF u \in DOMAIN store THEN <<task_text>> \o store[u]
        ELSE <<task_text>>]

\* lines 122-125: create the list if absent, then append
add_task(store, user_id, task_text) ==
    LET created == IF user_id \notin DOMAIN store
                   THEN setitem(store, user_id, <<>>) ELSE store
    IN  setitem(created, user_id, Append(created[user_id], task_text))

\* mutant: the lower bound of the index is not checked
index_valid_no_lower(task_index, list) == task_index < Len(list)

\* line 157: the index check before the pop
index_valid(task_index, list) == 0 <= task_index /\ task_index < Len(list)

\* line 158: user_tasks[user_id].pop(task_index)
pop_task(store, user_id, task_index) ==
    setitem(store, user_id, pop_rest(store[user_id], task_index))

tasks_add_command(update) ==
    /\ task = Idle
    /\ LET user_id == update.effective_user
           task_text == strip(join(update.args))
       IN  IF Len(task_text) = 0
           THEN /\ task' = Await("tasks_add", update, 118, AddUsageText)
                /\ UNCHANGED user_tasks
           ELSE /\ user_id \in DOMAIN user_tasks => Len(user_tasks[user_id]) < MaxTasks
                /\ user_tasks' = add_task(user_tasks, user_id, task_text)
                /\ task' = Await("tasks_add", update, 126,
                                 TaskAddedText(task_text, Len(user_tasks'[user_id])))
    /\ before' = [user_tasks |-> user_tasks, job_count |-> job_count]
    /\ UNCHANGED <<jobs, job_count, alarms, notified, errors, suspended>>

tasks_list_command(update) ==
    /\ task = Idle
    /\ LET user_id == update.effective_user
       IN  IF no_tasks(user_tasks, user_id)
           THEN task' = Await("tasks_list", update, 133, EmptyListText)
           ELSE task' = Await("tasks_list", update, 140,
                              TaskListText(user_tasks[user_id]))
    /\ before' = [user_tasks |-> user_tasks, job_count |-> job_count]
    /\ UNCHANGED <<user_tasks, jobs, job_count, alarms, notified, errors, suspended>>

tasks_done_command(update) ==
    /\ task = Idle
    /\ LET user_id == update.effective_user
           args == update.args
       IN  IF Len(args) = 0 \/ ~isdigit(args[1])
           THEN /\ task' = Await("tasks_done", update, 147, DoneUsageText)
                /\ UNCHANGED user_tasks
           ELSE IF int_raises(args[1])
           THEN \* ValueError in the try block: logged, then the reply of line 164
                /\ task' = Await("tasks_done", update, 164, DoneErrorText)
                /\ UNCHANGED user_tasks
           ELSE LET task_index == int(args[1]) - 1
                IN  IF no_tasks(user_tasks, user_id)
                    THEN /\ task' = Await("tasks_done", update, 154, NothingDoneText)
                         /\ UNCHANGED user_tasks
                    ELSE IF index_valid(task_index, user_tasks[user_id])
                    THEN /\ user_tasks' = pop_task(user_tasks, user_id, task_index)
                         /\ task' = Await("tasks_done", update, 159,
                                CompletedText(pop_item(user_tasks[user_id], task_index)))
                    ELSE /\ task' = Await("tasks_done", update, 161, NoSuchTaskText)
                         /\ UNCHANGED user_tasks
    /\ before' = [user_tasks |-> user_tasks, job_count |-> job_count]
    /\ UNCHANGED <<jobs, job_count, alarms, notified, errors, suspended>>

(***************************************************************************)
(* The pomodoro timer.                                                     *)
(***************************************************************************)
\* lines 81-86: the requested minutes of an argument list int() accepts
requested_minutes(user_input) ==
    IF Len(user_input) > 0 /\ isdigit(user_input[1])
    THEN int(user_input[1])
    ELSE DefaultMinutes

\* lines 81-82: int(user_input[0]) is evaluated and raises ValueError
minutes_raise(user_input) ==
    Len(user_input) > 0 /\ isdigit(user_input[1]) /\ int_raises(user_input[1])

\* mutant: the 10-second shortcut for 25 minutes is dropped
resolve_delay_plain(duration_minutes) == duration_minutes * SecondsPerMinute

\* line 88
resolve_delay(duration_minutes) ==
    IF duration_minutes = DefaultMinutes THEN TestSeconds
    ELSE duration_minutes * SecondsPerMinute

\* mutant: only negative delays are rejected
too_short_negative(duration_seconds) == duration_seconds < 0

\* line 90
too_short(duration_seconds) == duration_seconds < MinSeconds

\* mutant: the label is built from the resolved delay, not the requested minutes
job_data_resolved(duration_minutes) ==
    [type |-> str(resolve_delay(duration_minutes) \div SecondsPerMinute)
                  \o <<"-minute study">>]

\* line 100: the job's data
job_data(duration_minutes) == [type |-> str(duration_minutes) \o <<"-minute study">>]

\* the Job object of lines 95-101; `id` is the object's identity
Job(id, duration_seconds, chat_id, duration_minutes) ==
    [id |-> id, callback |-> "alarm_callback", when |-> duration_seconds,
     chat_id |-> chat_id, name |-> str(chat_id), data |-> job_data(duration_minutes)]

\* mutant: a job replaces the pending jobs registered under the same name
run_once_replacing(queue, job) == {j \in queue : j.name # job.name} \cup {job}

\* job_queue.run_once: the new job joins the pending jobs
run_once(queue, job) == queue \cup {job}

pomodoro_command(update) ==
    /\ task = Idle
    /\ LET chat_id == update.effective_chat
           user_input == update.args
       IN  IF minutes_raise(user_input)
           THEN /\ task' = Await("pomodoro", update, 108, PomodoroUsageText)
                /\ UNCHANGED <<jobs, job_count>>
           ELSE LET duration_minutes == requested_minutes(user_input)
                    duration_seconds == resolve_delay(duration_minutes)
                IN  IF too_short(duration_seconds)
                    THEN /\ task' = Await("pomodoro", update, 91, MinDurationText)
                         /\ UNCHANGED <<jobs, job_count>>
                    ELSE /\ job_count < MaxJobs
                         /\ job_count' = job_count + 1
                         /\ jobs' = run_once(jobs, Job(job_count', duration_seconds,
                                                       chat_id, duration_minutes))
                         /\ task' = Await("pomodoro", update, 103,
                                          TimerSetText(duration_minutes))
    /\ before' = [user_tasks |-> user_tasks, job_count |-> job_count]
    /\ UNCHANGED <<user_tasks, alarms, notified, errors, suspended>>

\* the send_message call of alarm_callback for `job`
alarm_message(job) ==
    [job |-> job.id, chat_id |-> job.chat_id, text |-> DingText(job.data.type)]

\* mutant: the job is dropped from the queue and its callback never runs
job_dropped(job) ==
    /\ job \in jobs
    /\ jobs' = jobs \ {job}
    /\ UNCHANGED <<user_tasks, job_count, task, alarms, notified, errors, suspended, before>>

\* mutant: the firing job also discards the task list kept under its chat id
job_fires_clearing(job) ==
    /\ job \in jobs
    /\ jobs' = jobs \ {job}
    /\ alarms' = alarms \cup {job}
    /\ notified' = notified (+) SetToBag({[job |-> job.id, chat_id |-> job.chat_id,
                                          text |-> DingText(job.data.type)]})
    /\ user_tasks' = [u \in DOMAIN user_tasks \ {job.chat_id} |-> user_tasks[u]]
    /\ UNCHANGED <<job_count, task, errors, suspended, before>>

\* the scheduler runs a pending job: it leaves the queue (one-shot) and
\* alarm_callback runs up to the await of send_message
job_fires(job) ==
    /\ job \in jobs
    /\ jobs' = jobs \ {job}
    /\ alarms' = alarms \cup {job}
    /\ notified' = notified (+) SetToBag({alarm_message(job)})
    /\ UNCHANGED <<user_tasks, job_count, task, errors, suspended, before>>

\* send_message returns: alarm_callback ends
send_returns(job) ==
    /\ job \in alarms
    /\ alarms' = alarms \ {job}
    /\ UNCHANGED <<user_tasks, jobs, job_count, task, notified, errors, suspended, before>>

(***************************************************************************)
(* The remaining handlers.                                                 *)
(***************************************************************************)
start_command(update) ==
    /\ task = Idle
    /\ task' = Await("start", update, 52, HelpText)
    /\ before' = [user_tasks |-> user_tasks, job_count |-> job_count]
    /\ UNCHANGED <<user_tasks, jobs, job_count, alarms, notified, errors, suspended>>

help_command(update) ==
    /\ task = Idle
    /\ task' = Await("help", update, 52, HelpText)
    /\ before' = [user_tasks |-> user_tasks, job_count |-> job_count]
    /\ UNCHANGED <<user_tasks, jobs, job_count, alarms, notified, errors, suspended>>

quote_command(update) ==
    /\ task = Idle
    /\ \E q \in 1..NumQuotes : task' = Await("quote", update, 171, QuoteText(q))
    /\ before' = [user_tasks |-> user_tasks, job_count |-> job_count]
    /\ UNCHANGED <<user_tasks, jobs, job_count, alarms, notified, errors, suspended>>

text_message_handler(update) ==
    /\ task = Idle
    /\ \E p \in 1..NumPhrases : task' = Await("text", update, 187, PhraseText(p))
    /\ before' = [user_tasks |-> user_tasks, job_count |-> job_count]
    /\ UNCHANGED <<user_tasks, jobs, job_count, alarms, notified, errors, suspended>>

(***************************************************************************)
(* Completion of an awaited reply, and the error handler.                  *)
(***************************************************************************)
\* the awaits inside the try block of tasks_done_command, whose
\* `except Exception` catches a failing reply
in_try_except(t) == t.handler = "tasks_done" /\ t.at \in {154, 159, 161}

\* lines 191-195 up to the first await or the end: "raised" for the
\* AttributeError of None.effective_message
error_handler(update) ==
    IF update = None THEN "raised"
    ELSE IF update.effective_message THEN "replying"
    ELSE "returned"

\* every reply is the last statement of its path: the coroutine ends
reply_returns ==
    /\ task.pc = "await"
    /\ task' = Idle
    /\ errors' = IF task.handler = "error_handler"
                 THEN [errors EXCEPT !.update = "returned"] ELSE errors
    /\ UNCHANGED <<user_tasks, jobs, job_count, alarms, notified, suspended, before>>

\* a reply inside the try block of tasks_done_command raises: lines 162-164
reply_raises_caught ==
    /\ task.pc = "await"
    /\ in_try_except(task)
    /\ task' = Await("tasks_done", task.update, 164, DoneErrorText)
    /\ UNCHANGED <<user_tasks, jobs, job_count, alarms, notified, errors, suspended, before>>

\* a reply raises out of its handler: the application calls error_handler
reply_raises ==
    /\ task.pc = "await"
    /\ task.handler # "error_handler"
    /\ ~in_try_except(task)
    /\ LET outcome == error_handler(task.update)
       IN  /\ errors' = [errors EXCEPT !.update = outcome]
           /\ task' = IF outcome = "replying"
                      THEN Await("error_handler", task.update, 193, ApologyText)
                      ELSE Idle
    /\ UNCHANGED <<user_tasks, jobs, job_count, alarms, notified, suspended, before>>

\* the apology of error_handler raises
apology_raises ==
    /\ task.pc = "await"
    /\ task.handler = "error_handler"
    /\ task' = Idle
    /\ errors' = [errors EXCEPT !.update = "raised"]
    /\ UNCHANGED <<user_tasks, jobs, job_count, alarms, notified, suspended, before>>

\* send_message raises out of alarm_callback: the job queue calls
\* error_handler with no update
send_raises(job) ==
    /\ job \in alarms
    /\ alarms' = alarms \ {job}
    /\ errors' = [errors EXCEPT !.job = error_handler(None)]
    /\ UNCHANGED <<user_tasks, jobs, job_count, task, notified, suspended, before>>

\* the event loop sets the awaiting handler aside and takes the next update
\* (updates handled concurrently)
suspend ==
    /\ task.pc = "await"
    /\ task \notin suspended
    /\ Cardinality(suspended) < MaxSuspended
    /\ suspended' = suspended \cup {task}
    /\ task' = Idle
    /\ UNCHANGED <<user_tasks, jobs, job_count, alarms, notified, errors, before>>

\* mutant: tasks_add appends after its await, when the coroutine is resumed
resume_writing(coroutine) ==
    /\ task = Idle
    /\ coroutine \in suspended
    /\ suspended' = suspended \ {coroutine}
    /\ task' = coroutine
    /\ user_tasks' = IF coroutine.handler = "tasks_add" /\ coroutine.at = 126
                     THEN add_task(user_tasks, coroutine.update.effective_user,
                                   coroutine.reply.task)
                     ELSE user_tasks
    /\ UNCHANGED <<jobs, job_count, alarms, notified, errors, before>>

\* the event loop returns to a handler that was set aside
resume(coroutine) ==
    /\ task = Idle
    /\ coroutine \in suspended
    /\ suspended' = suspended \ {coroutine}
    /\ task' = coroutine
    /\ UNCHANGED <<user_tasks, jobs, job_count, alarms, notified, errors, before>>

Completion ==
    \/ reply_returns
    \/ reply_raises
    \/ apology_raises

Fixed ==
    \/ \E update \in Updates(NoArgs) : start_command(update)
    \/ \E update \in Updates(NoArgs) : help_command(update)
    \/ \E update \in Updates(NoArgs) : quote_command(update)
    \/ \E update \in Updates(NoArgs) : text_message_handler(update)

Tasks ==
    \/ \E update \in Updates(AddArgs) : tasks_add_command(update)
    \/ \E update \in Updates(NoArgs) : tasks_list_command(update)
    \/ \E update \in Updates(DoneArgs) : tasks_done_command(update)
    \/ reply_raises_caught

Timer ==
    \/ \E update \in Updates(PomodoroArgs) : pomodoro_command(update)
    \/ \E job \in jobs : job_fires(job)
    \/ \E job \in alarms : send_returns(job)
    \/ \E job \in alarms : send_raises(job)

Next == Tasks \/ Timer \/ Fixed \/ Completion

Spec == Init /\ [][Next]_vars

\* the task commands alone (the timer's variables stay as Init leaves them)
TasksNext == Tasks \/ Fixed \/ Completion

TasksSpec == Init /\ [][TasksNext]_vars

\* the timer alone (user_tasks stays empty)
TimerNext == Timer \/ Fixed \/ Completion

TimerSpec == Init /\ [][TimerNext]_vars

\* the pomodoro command and its jobs under a scheduler that runs every job
\* whose time has come and an event loop that completes every awaited
\* send_message, while the process keeps running
TimerFairNext == Timer \/ Completion

TimerFairSpec ==
    /\ Init /\ [][TimerFairNext]_vars
    /\ \A id \in 1..MaxJobs :
         WF_vars(\E job \in jobs : job.id = id /\ job_fires(job))
    /\ WF_vars(\E job \in alarms : send_returns(job) \/ send_raises(job))

\* The task commands and the timer together, on fewer argument lists: every
\* interleaving of the steps of a task command with pomodoro requests and
\* with firing and completing jobs.
MixedAddArgs == {<<<<"a">>>>}

MixedDoneArgs == {<<<<"1">>>>, <<<<"a">>>>}

MixedPomodoroArgs == {<<>>, <<<<"0">>>>}

MixedNext ==
    \/ \E update \in Updates(MixedAddArgs) : tasks_add_command(update)
    \/ \E update \in Updates(NoArgs) : tasks_list_command(update)
    \/ \E update \in Updates(MixedDoneArgs) : tasks_done_command(update)
    \/ reply_raises_caught
    \/ \E update \in Updates(MixedPomodoroArgs) : pomodoro_command(update)
    \/ \E job \in jobs : job_fires(job)
    \/ \E job \in alarms : send_returns(job)
    \/ \E job \in alarms : send_raises(job)
    \/ Completion

MixedSpec == Init /\ [][MixedNext]_vars

\* The task commands with overlapping handlers: a handler awaiting its reply
\* may be set aside while further updates are handled, and resumed later.
\* All updates come from one user, whose handlers are the ones that share a list.
ConcurrentSender == CHOOSE sender \in Senders : sender.user = sender.chat

ConcurrentUpdates(arglists) == {Update(ConcurrentSender, args) : args \in arglists}

ConcurrentAddArgs == {<<<<"a">>>>, <<<<"b">>>>}

ConcurrentDoneArgs == {<<<<"1">>>>, <<<<"2">>>>}

ConcurrentNext ==
    \/ \E update \in ConcurrentUpdates(ConcurrentAddArgs) : tasks_add_command(update)
    \/ \E update \in ConcurrentUpdates(NoArgs) : tasks_list_command(update)
    \/ \E update \in ConcurrentUpdates(ConcurrentDoneArgs) : tasks_done_command(update)
    \/ reply_raises_caught
    \/ suspend
    \/ \E coroutine \in suspended : resume(coroutine)
    \/ Completion

ConcurrentSpec == Init /\ [][ConcurrentNext]_vars

(***************************************************************************)
(* Steps the properties speak about.                                       *)
(***************************************************************************)
\* this step starts the handler `handler` on an update
Starts(handler) == task = Idle /\ task'.pc = "await" /\ task'.handler = handler

\* the user's list as tasks_list would read it: empty when there is no entry
ListOf(store, user_id) == IF user_id \in DOMAIN store THEN store[user_id] ELSE <<>>

\* the argument is a non-empty run of the decimal digits 0-9
IsNumber(arg) == Len(arg) > 0 /\ \A i \in 1..Len(arg) : arg[i] \in DecimalChars

\* every character of every argument is whitespace (no arguments included)
IsBlank(args) ==
    \A i \in 1..Len(args) : \A j \in 1..Len(args[i]) : args[i][j] = " "

(***************************************************************************)
(* C1.  A tasks_add whose text is non-empty after trimming appends that    *)
(* text as the last element of the user's list (creating the list if       *)
(* absent); the task number in its reply is the new length of the list,    *)
(* and the listing tasks_list renders from the resulting list shows the    *)
(* text under exactly that number.                                         *)
(***************************************************************************)
C1_AddAppendsAndReportsPosition ==
    [][Starts("tasks_add") /\ ~IsBlank(task'.update.args)
        => LET u == task'.update.effective_user
               text == strip(join(task'.update.args))
               new == ListOf(user_tasks', u)
           IN  /\ u \in DOMAIN user_tasks'
               /\ new = Append(ListOf(user_tasks, u), text)
               /\ task'.reply.text = "Task added"
               /\ task'.reply.task = text
               /\ task'.reply.number = str(Len(new))
               /\ ~no_tasks(user_tasks', u)
               /\ \E n \in 1..Len(new) :
                    /\ str(n) = task'.reply.number
                    /\ TaskListText(new).lines[n] = [number |-> str(n), task |-> text]
                    /\ n = Len(new)
      ]_vars

\* a second task was added to a list that already held one
C1_Witness ==
    /\ task.pc = "await" /\ task.handler = "tasks_add" /\ task.at = 126
    /\ task.reply.number = <<"2">>
    /\ Len(user_tasks[task.update.effective_user]) = 2
    /\ user_tasks[task.update.effective_user][2] = task.reply.task
    /\ user_tasks[task.update.effective_user][1] # task.reply.task

(***************************************************************************)
(* C2.  For a list of length L and 1 <= k <= L, tasks_done k removes       *)
(* exactly the k-th element and reports it as completed: the new list has  *)
(* length L-1, the elements before k keep their positions, every element   *)
(* formerly at j > k is now at j-1, and the listing numbers the remaining  *)
(* tasks 1..L-1 by their current positions.                                *)
(***************************************************************************)
C2_DoneRemovesKthAndRenumbers ==
    [][Starts("tasks_done") /\ Len(task'.update.args) > 0
            /\ IsNumber(task'.update.args[1])
            /\ int(task'.update.args[1]) >= 1
            /\ int(task'.update.args[1])
                   <= Len(ListOf(user_tasks, task'.update.effective_user))
        => LET u == task'.update.effective_user
               k == int(task'.update.args[1])
               old == user_tasks[u]
               new == user_tasks'[u]
           IN  /\ task'.reply = CompletedText(old[k])
               /\ Len(new) = Len(old) - 1
               /\ \A j \in 1..(k - 1) : new[j] = old[j]
               /\ \A j \in (k + 1)..Len(old) : new[j - 1] = old[j]
               /\ Len(TaskListText(new).lines) = Len(new)
               /\ \A i \in 1..Len(new) :
                    TaskListText(new).lines[i] = [number |-> str(i), task |-> new[i]]
      ]_vars

\* the first of two different tasks was completed: the second is now number 1
C2_Witness ==
    /\ task.pc = "await" /\ task.handler = "tasks_done" /\ task.at = 159
    /\ task.update.args = <<<<"1">>>>
    /\ Len(user_tasks[task.update.effective_user]) = 1
    /\ user_tasks[task.update.effective_user][1] # task.reply.task

(***************************************************************************)
(* C3.  A tasks_add whose text is empty or only whitespace (no arguments   *)
(* included) leaves the task store as it is - no entry is created for an   *)
(* absent user, nothing is appended - and replies with the usage message,  *)
(* not with "Task added".                                                  *)
(***************************************************************************)
C3_BlankAddChangesNothing ==
    [][Starts("tasks_add") /\ IsBlank(task'.update.args)
        => /\ user_tasks' = user_tasks
           /\ DOMAIN user_tasks' = DOMAIN user_tasks
           /\ task'.reply = AddUsageText
           /\ task'.reply.text # "Task added"
      ]_vars

\* a whitespace-only argument from a user who has no entry in the store
C3_Witness ==
    /\ task.pc = "await" /\ task.handler = "tasks_add" /\ task.at = 118
    /\ task.update.args = <<<<" ">>>>
    /\ task.update.effective_user \notin DOMAIN user_tasks
    /\ task.reply = AddUsageText

(***************************************************************************)
(* C4.  A tasks_done that does not report a completed task leaves the      *)
(* whole task store unchanged.  With a numeric index k (a run of decimal   *)
(* digits) it replies "list is empty" when the user has no list or an      *)
(* empty one, and "task number doesn't exist" when the list has length     *)
(* L >= 1 and k < 1 or k > L.  The later steps of the handler (its reply   *)
(* returning or failing) do not touch the store either.                    *)
(***************************************************************************)
C4_FailedDoneChangesNothing ==
    [][/\ Starts("tasks_done") /\ task'.reply.text # "You completed"
            => user_tasks' = user_tasks
       /\ Starts("tasks_done") /\ Len(task'.update.args) > 0
               /\ IsNumber(task'.update.args[1])
            => LET u == task'.update.effective_user
                   k == int(task'.update.args[1])
                   L == Len(ListOf(user_tasks, u))
               IN  /\ L = 0 => task'.reply = NothingDoneText
                   /\ L >= 1 /\ (k < 1 \/ k > L) => task'.reply = NoSuchTaskText
                   /\ L = 0 \/ k < 1 \/ k > L => user_tasks' = user_tasks
       /\ task.pc = "await" /\ task.handler = "tasks_done"
            => user_tasks' = user_tasks
      ]_vars

\* index 0 on a non-empty list: rejected as out of range, nothing removed
C4_Witness ==
    /\ task.pc = "await" /\ task.handler = "tasks_done" /\ task.at = 161
    /\ task.update.args = <<<<"0">>>>
    /\ Len(user_tasks[task.update.effective_user]) = MaxTasks

(***************************************************************************)
(* C5.  The delay pomodoro registers its job with is a function of the     *)
(* requested minutes alone (the count its confirmation shows): 10 seconds  *)
(* when that is 25, taken as the default without arguments or given        *)
(* explicitly, and minutes*60 seconds for any other number (5 -> 300).     *)
(***************************************************************************)
C5_DelayIsFunctionOfMinutes ==
    [][Starts("pomodoro") /\ jobs' # jobs
        => \A job \in jobs' \ jobs :
             LET args == task'.update.args
                 minutes == int(task'.reply.minutes)
             IN  /\ Len(args) = 0 => minutes = 25
                 /\ Len(args) > 0 /\ IsNumber(args[1]) => minutes = int(args[1])
                 /\ job.when = IF minutes = 25 THEN 10 ELSE minutes * 60
                 /\ args = <<>> => job.when = 10
                 /\ args = <<<<"2", "5">>>> => job.when = 10
                 /\ args = <<<<"5">>>> => job.when = 300
      ]_vars

\* a default request and a 5-minute request are pending side by side
C5_Witness ==
    /\ \E job \in jobs : job.when = 10 /\ job.data.type = <<"2", "5", "-minute study">>
    /\ \E job \in jobs : job.when = 300 /\ job.data.type = <<"5", "-minute study">>

(***************************************************************************)
(* C6.  A pomodoro request whose resolved delay is below 5 seconds         *)
(* (/pomodoro 0) is answered with the minimum-duration message: no job is  *)
(* registered, neither by that step nor by the rest of the handler, no     *)
(* "Timer set" confirmation follows, and a notification is only ever sent  *)
(* by the firing of a registered job; every pending job has a delay of at  *)
(* least 5 seconds.                                                        *)
(***************************************************************************)
C6_ShortDelayRejected ==
    /\ [](\A job \in jobs \cup alarms : job.when >= 5)
    /\ [][/\ Starts("pomodoro") /\ Len(task'.update.args) > 0
                /\ IsNumber(task'.update.args[1])
                /\ (LET minutes == int(task'.update.args[1])
                    IN  (IF minutes = 25 THEN 10 ELSE minutes * 60) < 5)
             => /\ task'.reply = MinDurationText
                /\ task'.at = 91
                /\ jobs' = jobs /\ job_count' = job_count
                /\ alarms' = alarms /\ notified' = notified
          /\ task.pc = "await" /\ task.handler = "pomodoro" /\ task.at = 91
             => /\ jobs' \subseteq jobs /\ job_count' = job_count
                /\ task' \in {task, Idle} \/ task'.handler = "error_handler"
          /\ notified' # notified
             => \E job \in jobs \ jobs' :
                  /\ job.when >= 5
                  /\ notified' = notified (+) SetToBag({alarm_message(job)})
         ]_vars

\* /pomodoro 0 was rejected while nothing is or was scheduled
C6_Witness ==
    /\ task.pc = "await" /\ task.handler = "pomodoro" /\ task.at = 91
    /\ task.update.args = <<<<"0">>>>
    /\ task.reply = MinDurationText
    /\ jobs = {} /\ job_count = 0

(***************************************************************************)
(* C7.  pomodoro takes the 25-minute default only without an argument; an  *)
(* argument that is not a non-negative integer ("a", "-5", "2.5") gets the *)
(* usage error, and no job is scheduled and no confirmation sent.          *)
(***************************************************************************)
C7_MalformedArgumentIsUsageError ==
    [][Starts("pomodoro") /\ Len(task'.update.args) > 0
            /\ ~IsNumber(task'.update.args[1])
        => /\ task'.reply = PomodoroUsageText
           /\ jobs' = jobs
           /\ job_count' = job_count
      ]_vars

(***************************************************************************)
(* C8.  An accepted pomodoro request adds exactly one job, carrying the    *)
(* requesting chat's id and the label "<requested minutes>-minute study"   *)
(* with the minutes its confirmation shows.  A job leaves the queue by     *)
(* firing, which makes one send_message call to the job's chat with the    *)
(* job's label; no job is notified twice or stays pending after firing,    *)
(* and the notifications never outnumber the accepted requests.            *)
(***************************************************************************)
C8_OneJobOneNotification ==
    /\ [](/\ BagCardinality(notified) <= job_count
          /\ \A msg \in BagToSet(notified) :
               /\ CopiesIn(msg, notified) = 1
               /\ \A job \in jobs : job.id # msg.job
               /\ \A other \in BagToSet(notified) : other.job = msg.job => other = msg)
    /\ [][/\ Starts("pomodoro") /\ task'.reply.text = "Timer set!"
             => /\ job_count' = job_count + 1
                /\ Cardinality(jobs' \ jobs) = 1
                /\ jobs \subseteq jobs'
                /\ \A job \in jobs' \ jobs :
                     /\ job.chat_id = task'.update.effective_chat
                     /\ job.data.type = task'.reply.minutes \o <<"-minute study">>
                     /\ Len(task'.update.args) > 0 /\ IsNumber(task'.update.args[1])
                          => task'.reply.minutes = str(int(task'.update.args[1]))
          /\ Starts("pomodoro") /\ task'.reply.text # "Timer set!"
             => jobs' = jobs /\ job_count' = job_count
          /\ \A job \in jobs \ jobs' :
               /\ CopiesIn(alarm_message(job), notified) = 0
               /\ notified' = notified (+) SetToBag({alarm_message(job)})
               /\ alarm_message(job).chat_id = job.chat_id
               /\ alarm_message(job).text = DingText(job.data.type)
          /\ notified' # notified => Cardinality(jobs \ jobs') = 1
         ]_vars

\* the default request of the group chat has fired: one notification, naming
\* "25-minute study", and the job is gone
C8_Witness ==
    /\ job_count = 1 /\ jobs = {} /\ alarms = {}
    /\ BagCardinality(notified) = 1
    /\ \E msg \in BagToSet(notified) :
         /\ msg.chat_id = -1001
         /\ msg.text.type = <<"2", "5", "-minute study">>

(***************************************************************************)
(* C9.  Timers of one chat coexist: an accepted pomodoro request removes   *)
(* or changes no pending job, although all jobs of a chat share the name   *)
(* str(chat_id); a job leaves the queue only by firing, never by a         *)
(* command; every job created is still pending or has been notified, so n  *)
(* accepted requests give n jobs and, once none is pending, n              *)
(* notifications.                                                          *)
(***************************************************************************)
C9_TimersCoexist ==
    /\ [](/\ Cardinality(jobs) + BagCardinality(notified) = job_count
          /\ Cardinality({job.id : job \in jobs}) = Cardinality(jobs)
          /\ jobs = {} => BagCardinality(notified) = job_count)
    /\ [][/\ Starts("pomodoro") => jobs \subseteq jobs' /\ alarms' = alarms
          /\ \A job \in jobs \ jobs' :
               /\ task' = task
               /\ job \in alarms'
               /\ CopiesIn(alarm_message(job), notified') = 1
         ]_vars

\* two jobs of the same chat, registered under the same name, are pending
C9_Witness ==
    \E j1 \in jobs : \E j2 \in jobs :
        /\ j1.id # j2.id
        /\ j1.name = j2.name
        /\ j1.chat_id = j2.chat_id
        /\ j1.data = j2.data

(***************************************************************************)
(* C10.  The error handler never raises: handed the failure of a timer     *)
(* callback, for which there is no update, it only logs and returns.       *)
(***************************************************************************)
C10_ErrorHandlerReturnsWithoutUpdate == errors.job \in {"none", "returned"}

(***************************************************************************)
(* C11.  Every command either fully succeeds or has no effect: when a      *)
(* tasks_add, tasks_done or pomodoro handler has failed unexpectedly       *)
(* (error_handler is sending the generic apology for its update, or        *)
(* tasks_done is sending "An error occurred" from its except block), the   *)
(* task store is the one the command started with and the command has      *)
(* registered no job.  (The claim as stated; it fails when the reply that  *)
(* follows the mutation raises.)                                           *)
(***************************************************************************)
C11_FailedCommandChangesNothing ==
    (/\ task.pc = "await"
     /\ \/ task.handler = "error_handler"
        \/ task.handler = "tasks_done" /\ task.at = 164)
        => /\ user_tasks = before.user_tasks
           /\ job_count = before.job_count

(***************************************************************************)
(* C12.  tasks_done validates its argument as a positive integer before it *)
(* consults the task store: a missing argument, a non-numeric argument or  *)
(* a number that is not positive (0) gets the usage error, whether or not  *)
(* the user has tasks.  (The claim as stated; it fails for 0.)             *)
(***************************************************************************)
C12_NonPositiveIsUsageError ==
    [][Starts("tasks_done")
        => LET args == task'.update.args
           IN  /\ Len(args) = 0 => task'.reply = DoneUsageText
               /\ Len(args) > 0 /\ (\E i \in 1..Len(args[1]) : args[1][i] \notin DigitChars)
                    => task'.reply = DoneUsageText
               /\ Len(args) > 0 /\ IsNumber(args[1]) /\ int(args[1]) < 1
                    => task'.reply = DoneUsageText
      ]_vars

(***************************************************************************)
(* C12, amended.  tasks_done checks that its argument is a run of digits   *)
(* before it consults the task store: a missing argument or one with a     *)
(* character that is no digit gets the usage error, whether or not the     *)
(* user has tasks.  An argument of decimal digits, 0 included, goes on to  *)
(* the "list is empty" check and then to the range check, which is what    *)
(* rejects 0; it never gets the usage error.  An argument of digits that   *)
(* int() rejects gets the "An error occurred" reply.                       *)
(***************************************************************************)
C12_DigitsCheckedBeforeStore ==
    [][Starts("tasks_done")
        => LET args == task'.update.args
               L == Len(ListOf(user_tasks, task'.update.effective_user))
           IN  /\ Len(args) = 0 => task'.reply = DoneUsageText /\ task'.at = 147
               /\ Len(args) > 0 /\ (\E i \in 1..Len(args[1]) : args[1][i] \notin DigitChars)
                    => task'.reply = DoneUsageText /\ task'.at = 147
               /\ Len(args) > 0 /\ IsNumber(args[1])
                    => /\ task'.reply # DoneUsageText
                       /\ L = 0 => task'.reply = NothingDoneText
                       /\ L >= 1 /\ (int(args[1]) < 1 \/ int(args[1]) > L)
                            => task'.reply = NoSuchTaskText
                       /\ L >= 1 /\ int(args[1]) >= 1 /\ int(args[1]) <= L
                            => task'.reply.text = "You completed"
               /\ Len(args) > 0 /\ Len(args[1]) > 0 /\ ~IsNumber(args[1])
                       /\ (\A i \in 1..Len(args[1]) : args[1][i] \in DigitChars)
                    => task'.reply = DoneErrorText
               /\ task'.reply = DoneUsageText => user_tasks' = user_tasks
      ]_vars

\* /tasks_done 0 from a user without tasks reached the "list is empty" check
C12_Witness ==
    /\ task.pc = "await" /\ task.handler = "tasks_done" /\ task.at = 154
    /\ task.update.args = <<<<"0">>>>
    /\ task.reply = NothingDoneText

(***************************************************************************)
(* C14.  tasks_list replies "list is empty" exactly when the user has no   *)
(* entry in the store or an entry with an empty list, and with the         *)
(* numbered listing exactly when the list holds a task.  A user whose      *)
(* tasks have all been completed is answered like one who never added a   *)
(* task, and a tasks_done that follows gets the empty-list error, not the  *)
(* out-of-range error.                                                     *)
(***************************************************************************)
C14_EmptyListReported ==
    [][/\ Starts("tasks_list")
            => LET u == task'.update.effective_user
                   empty == u \notin DOMAIN user_tasks \/ user_tasks[u] = <<>>
               IN  /\ empty <=> task'.reply = EmptyListText
                   /\ ~empty <=> task'.reply.text = "Your Current Study Tasks"
                   /\ ~empty => /\ task'.reply.lines = enumerate(user_tasks[u])
                                /\ Len(task'.reply.lines) >= 1
       /\ Starts("tasks_done") /\ Len(task'.update.args) > 0
               /\ IsNumber(task'.update.args[1])
               /\ task'.update.effective_user \in DOMAIN user_tasks
               /\ user_tasks[task'.update.effective_user] = <<>>
            => task'.reply = NothingDoneText
      ]_vars

\* tasks_list for a user whose entry exists and has been emptied by tasks_done
C14_Witness ==
    /\ task.pc = "await" /\ task.handler = "tasks_list" /\ task.at = 133
    /\ task.update.effective_user \in DOMAIN user_tasks
    /\ user_tasks[task.update.effective_user] = <<>>
    /\ task.reply = EmptyListText

(***************************************************************************)
(* C16.  Task lists are isolated per user: a tasks_add or tasks_done of    *)
(* user u leaves every other user's entry - its presence and its list -    *)
(* unchanged; start, help, tasks_list, quote and the text fallback leave   *)
(* the whole store unchanged, and so does every later step of a handler:   *)
(* the store changes only in the step that starts a tasks_add or a         *)
(* tasks_done.                                                             *)
(***************************************************************************)
C16_ListsIsolatedPerUser ==
    [][/\ Starts("tasks_add") \/ Starts("tasks_done")
            => \A v \in Users \ {task'.update.effective_user} :
                 /\ v \in DOMAIN user_tasks' <=> v \in DOMAIN user_tasks
                 /\ v \in DOMAIN user_tasks => user_tasks'[v] = user_tasks[v]
       /\ (\E h \in {"start", "help", "tasks_list", "quote", "text"} : Starts(h))
            => user_tasks' = user_tasks
       /\ user_tasks' # user_tasks => Starts("tasks_add") \/ Starts("tasks_done")
      ]_vars

\* one user completes a task while the other user's list holds tasks
C16_Witness ==
    /\ task.pc = "await" /\ task.handler = "tasks_done" /\ task.at = 159
    /\ \E v \in DOMAIN user_tasks :
         /\ v # task.update.effective_user
         /\ Len(user_tasks[v]) = MaxTasks
         /\ user_tasks[v] # user_tasks[task.update.effective_user]

(***************************************************************************)
(* C15.  Under a weakly fair scheduler every registered job eventually     *)
(* fires and sends its message: a pending job leads to the notification    *)
(* of that job, to its chat and with its label, and the job is then no     *)
(* longer pending; the pending jobs drain unless a further request         *)
(* arrives.  /pomodoro without arguments confirms 25 minutes and registers *)
(* the job labelled "25-minute study", which its notification names.       *)
(***************************************************************************)
C15_EveryJobIsNotified ==
    /\ \A id \in 1..MaxJobs :
         (\E job \in jobs : job.id = id)
           ~> (/\ \A job \in jobs : job.id # id
               /\ \E msg \in BagToSet(notified) : msg.job = id)
    /\ \A n \in 1..MaxJobs :
         (job_count = n /\ jobs # {}) ~> (jobs = {} \/ job_count > n)
    /\ [][\A job \in jobs \ jobs' :
            \E msg \in BagToSet(notified') :
              /\ msg \notin BagToSet(notified)
              /\ msg.job = job.id
              /\ msg.chat_id = job.chat_id
              /\ msg.text = DingText(job.data.type)
         ]_vars
    /\ [][Starts("pomodoro") /\ task'.update.args = <<>>
            => /\ task'.reply = [text |-> "Timer set!", minutes |-> <<"2", "5">>]
               /\ \E job \in jobs' \ jobs :
                    /\ job.data.type = <<"2", "5", "-minute study">>
                    /\ job.chat_id = task'.update.effective_chat
         ]_vars

\* every accepted request, the default one among them, has been notified
C15_Witness ==
    /\ job_count = MaxJobs /\ jobs = {} /\ alarms = {}
    /\ BagCardinality(notified) = MaxJobs
    /\ \E msg \in BagToSet(notified) :
         msg.text = DingText(<<"2", "5", "-minute study">>)

(***************************************************************************)
(* C13.  The timer and the task store touch disjoint data under every      *)
(* interleaving: a step of pomodoro (accepted or rejected), a job firing   *)
(* and the completion of its send_message leave every task list            *)
(* unchanged; a step of tasks_add, tasks_list or tasks_done - its start,   *)
(* the completion of its reply, its error handling - leaves the pending    *)
(* jobs, the running callbacks and the notifications unchanged; and a job  *)
(* that fires while a task command is in flight leaves that command's      *)
(* coroutine as it is.                                                     *)
(***************************************************************************)
TaskCommands == {"tasks_add", "tasks_list", "tasks_done"}

C13_TimerAndTasksDisjoint ==
    [][/\ \/ Starts("pomodoro")
          \/ task.pc = "await" /\ task.handler = "pomodoro" /\ task' # task
          \/ jobs' # jobs \/ alarms' # alarms
          \/ notified' # notified \/ job_count' # job_count
          \/ errors'.job # errors.job
            => user_tasks' = user_tasks
       /\ \/ \E h \in TaskCommands : Starts(h)
          \/ task.pc = "await" /\ task.handler \in TaskCommands /\ task' # task
          \/ user_tasks' # user_tasks
            => /\ jobs' = jobs /\ alarms' = alarms
               /\ notified' = notified /\ job_count' = job_count
       /\ jobs' # jobs /\ task.pc = "await" /\ task.handler \in TaskCommands
            => task' = task
      ]_vars

\* the job of a chat has fired and its callback is awaiting send_message
\* while a tasks_done of the same chat, which removed a task, awaits its reply
C13_Witness ==
    /\ task.pc = "await" /\ task.handler = "tasks_done" /\ task.at = 159
    /\ task.update.effective_user \in DOMAIN user_tasks
    /\ \E job \in alarms : job.chat_id = task.update.effective_chat
    /\ \E job \in jobs : job.chat_id = task.update.effective_chat

(***************************************************************************)
(* C17.  With handlers interleaved at their replies the store is still the *)
(* serial application of the accepted commands: the store changes only in  *)
(* the step that starts an accepted tasks_add or tasks_done, that step     *)
(* applies the whole command to the store as it is then (the add appends   *)
(* and reports the new length, the done removes the task it names), every  *)
(* accepted command changes the store, and                                 *)
(* setting a handler aside or resuming it changes neither the store nor    *)
(* the reply the handler computed.                                         *)
(***************************************************************************)
C17_InterleavedStoreIsSerial ==
    [][LET accepted(h, line) == Starts(h) /\ suspended' = suspended /\ task'.at = line
           user_id == task'.update.effective_user
           old == ListOf(user_tasks, user_id)
           new == ListOf(user_tasks', user_id)
       IN  /\ user_tasks' # user_tasks
                <=> accepted("tasks_add", 126) \/ accepted("tasks_done", 159)
           /\ accepted("tasks_add", 126)
                => /\ new = Append(old, task'.reply.task)
                   /\ task'.reply.number = str(Len(new))
           /\ accepted("tasks_done", 159)
                => \E k \in 1..Len(old) :
                      /\ task'.update.args[1] = str(k)
                      /\ task'.reply.task = old[k]
                      /\ new = [i \in 1..(Len(old) - 1) |->
                                  IF i < k THEN old[i] ELSE old[i + 1]]
           /\ suspended' # suspended
                => \/ task.pc = "await" /\ suspended' = suspended \cup {task}
                   \/ task' \in suspended /\ suspended' = suspended \ {task'}
      ]_vars

\* a tasks_add handler set aside before its reply reports a task number the
\* list no longer has, while another handler of the same user awaits its reply
C17_Witness ==
    \E coroutine \in suspended :
        /\ coroutine.handler = "tasks_add" /\ coroutine.at = 126
        /\ coroutine.reply.number
             # str(Len(ListOf(user_tasks, coroutine.update.effective_user)))
        /\ task.pc = "await" /\ task.handler = "tasks_done" /\ task.at = 159
        /\ task.update.effective_user = coroutine.update.effective_user

====
